---------------------------- MODULE Spec2Model ----------------------------
(***************************************************************************)
(* generate-index.py: the vFlow repository index generator.                *)
(*                                                                         *)
(* The program scans a workflows directory (.json files) and a modules     *)
(* directory (.zip files), validates every file, rewrites a valid workflow *)
(* with three runtime flags forced to false, and writes one index.json per *)
(* directory.  The model keeps the two directories (the disk), the locals  *)
(* of the running scan and the position of main().                         *)
(*                                                                         *)
(* Strings the code inspects character by character (file names, ids,      *)
(* archive paths) are sequences of one-character strings.                  *)
(***************************************************************************)
EXTENDS Integers, Sequences, FiniteSets, TLC

\* Most files a directory holds in the model (besides its index.json).
MaxFiles == 2

(***************************************************************************)
(* Strings                                                                 *)
(***************************************************************************)
DotJson == <<".", "j", "s", "o", "n">>
DotZip == <<".", "z", "i", "p">>
ManifestName == <<"m", "a", "n", "i", "f", "e", "s", "t">> \o DotJson
IndexName == <<"i", "n", "d", "e", "x">> \o DotJson

\* The code point of a character (Python compares str by code point).
Ord(c) ==
    CASE c = "." -> 46
      [] c = "/" -> 47
      [] c = "a" -> 97
      [] c = "b" -> 98
      [] c = "d" -> 100
      [] c = "e" -> 101
      [] c = "f" -> 102
      [] c = "i" -> 105
      [] c = "j" -> 106
      [] c = "m" -> 109
      [] c = "n" -> 110
      [] c = "o" -> 111
      [] c = "p" -> 112
      [] c = "r" -> 114
      [] c = "s" -> 115
      [] c = "t" -> 116
      [] c = "x" -> 120
      [] c = "y" -> 121
      [] c = "z" -> 122

\* str.endswith
EndsWith(s, suffix) ==
    /\ Len(s) >= Len(suffix)
    /\ SubSeq(s, Len(s) - Len(suffix) + 1, Len(s)) = suffix

\* str.replace(old, ''): every non-overlapping occurrence of old, scanning
\* from the left, is removed.
RECURSIVE Replace(_, _)
Replace(s, old) ==
    IF Len(s) < Len(old) THEN s
    ELSE IF SubSeq(s, 1, Len(old)) = old
         THEN Replace(SubSeq(s, Len(old) + 1, Len(s)), old)
         ELSE <<Head(s)>> \o Replace(Tail(s), old)

\* Python's < on str: lexicographic by code point, a proper prefix first.
RECURSIVE StrLess(_, _)
StrLess(s, t) ==
    IF t = <<>> THEN FALSE
    ELSE IF s = <<>> THEN TRUE
    ELSE IF Head(s) = Head(t) THEN StrLess(Tail(s), Tail(t))
    ELSE Ord(Head(s)) < Ord(Head(t))

(***************************************************************************)
(* Identifier normalizer                                                   *)
(***************************************************************************)
normalize_workflow_id(filename) ==
    IF EndsWith(filename, DotJson) THEN Replace(filename, DotJson) ELSE filename

normalize_module_id(filename) ==
    IF EndsWith(filename, DotZip) THEN Replace(filename, DotZip) ELSE filename

(***************************************************************************)
(* Dictionaries                                                            *)
(*                                                                         *)
(* A _meta block or a manifest is a function from its keys to values.  The *)
(* other top-level fields of a workflow are an insertion-ordered dict: a   *)
(* sequence of <<key, value>> with no key twice.  Their values are opaque  *)
(* tokens; "surr" is a string holding a lone surrogate (JSON "\ud800"),    *)
(* which json.load accepts and a UTF-8 file refuses to take.               *)
(***************************************************************************)
NoDict == [k \in {} |-> <<>>]

\* dict.get(key, default)
Get(d, key, default) == IF key \in DOMAIN d THEN d[key] ELSE default

HasKey(pairs, k) == \E i \in 1..Len(pairs) : pairs[i][1] = k

\* d[k] = v on an insertion-ordered dict: an existing key keeps its place.
SetKey(pairs, k, v) ==
    IF HasKey(pairs, k)
    THEN [i \in 1..Len(pairs) |-> IF pairs[i][1] = k THEN <<k, v>> ELSE pairs[i]]
    ELSE Append(pairs, <<k, v>>)

\* The dict json.load builds from an object's members: a repeated key keeps
\* its first place and its last value.
RECURSIVE ObjectPairs(_, _)
ObjectPairs(raw, acc) ==
    IF raw = <<>> THEN acc
    ELSE ObjectPairs(Tail(raw), SetKey(acc, Head(raw)[1], Head(raw)[2]))

(***************************************************************************)
(* Workflow files                                                          *)
(*                                                                         *)
(* The text of a file on disk is a record:                                 *)
(*   kind    "object"      a JSON object                                   *)
(*           "scalar"      valid JSON that is no container (a number)      *)
(*           "invalid"     text that is not JSON                           *)
(*           "undecodable" bytes that are not UTF-8                        *)
(*           "truncated"   the head of an object, left by a write that     *)
(*                         stopped part-way                                *)
(*   fmt     "compact" or "indent2", the layout of the text                *)
(*   hasMeta, meta         the _meta member (written first)                *)
(*   members the other top-level members as written, a key may repeat      *)
(***************************************************************************)
Flags == <<"isEnabled", "isFavorite", "wasEnabledBeforePermissionsLost">>

\* json.load of a file opened with encoding='utf-8' (lines 93-94).
json_load(text) ==
    [raises |-> CASE text.kind = "undecodable" -> "UnicodeDecodeError"
                  [] text.kind \in {"invalid", "truncated"} -> "JSONDecodeError"
                  [] OTHER -> "none",
     isDict |-> text.kind = "object",
     hasMeta |-> text.kind = "object" /\ text.hasMeta,
     meta |-> IF text.kind = "object" THEN text.meta ELSE NoDict,
     fields |-> IF text.kind = "object" THEN ObjectPairs(text.members, <<>>)
                ELSE <<>>]

\* json.dump(data, f, ensure_ascii=False, indent=2) into a file opened with
\* 'w' (lines 131-132).  open() empties the file; the encoder writes member
\* by member, and the write of a lone surrogate raises UnicodeEncodeError,
\* which leaves the members written before it.
FirstSurrogate(fields) ==
    IF \E i \in 1..Len(fields) : fields[i][2] = "surr"
    THEN CHOOSE i \in 1..Len(fields) :
            /\ fields[i][2] = "surr"
            /\ \A j \in 1..(i - 1) : fields[j][2] # "surr"
    ELSE 0

json_dump(data) ==
    LET s == FirstSurrogate(data.fields) IN
    IF s = 0
    THEN [raises |-> "none",
          text |-> [kind |-> "object", fmt |-> "indent2",
                    hasMeta |-> data.hasMeta, meta |-> data.meta,
                    members |-> data.fields]]
    ELSE [raises |-> "UnicodeEncodeError",
          text |-> [kind |-> "truncated", fmt |-> "indent2",
                    hasMeta |-> data.hasMeta, meta |-> data.meta,
                    members |-> SubSeq(data.fields, 1, s - 1)]]

\* A faulty variant: the last required key is not checked.
required_meta_fields_short ==
    <<"id", "name", "description", "author", "version">>

required_meta_fields ==
    <<"id", "name", "description", "author", "version", "vFlowLevel">>

NoError == [kind |-> "none", missing |-> <<>>, expected |-> <<>>, got |-> <<>>]

\* validate_workflow(data, filename) for a dict: (is_valid, error_message).
validate_workflow(data, filename) ==
    IF ~data.hasMeta
    THEN [is_valid |-> FALSE,
          error |-> [NoError EXCEPT !.kind = "MissingMetadata"]]
    ELSE
      LET meta == data.meta
          missing_fields ==
              SelectSeq(required_meta_fields, LAMBDA field : field \notin DOMAIN meta)
      IN
      IF missing_fields # <<>>
      THEN [is_valid |-> FALSE,
            error |-> [NoError EXCEPT !.kind = "MissingRequiredFields",
                                      !.missing = missing_fields]]
      ELSE
        LET expected_id == normalize_workflow_id(filename)
            meta_id == meta["id"]
        IN
        IF meta_id # expected_id
        THEN [is_valid |-> FALSE,
              error |-> [NoError EXCEPT !.kind = "IdentifierMismatch",
                                        !.expected = expected_id,
                                        !.got = meta_id]]
        ELSE [is_valid |-> TRUE, error |-> NoError]

\* clean_workflow_for_repo(data): a copy with the three flags set to False.
clean_workflow_for_repo(data) ==
    [data EXCEPT !.fields =
        SetKey(SetKey(SetKey(@, Flags[1], "false"), Flags[2], "false"),
               Flags[3], "false")]

\* The index entry of a workflow (lines 111-126); of its fields the model
\* keeps id, name, homepage and filename.
workflow_item(meta, filename) ==
    [id |-> Get(meta, "id", normalize_workflow_id(filename)),
     name |-> Get(meta, "name", <<"u">>),
     homepage |-> Get(meta, "homepage", <<>>),
     filename |-> filename]

ErrorOf(filename, error) ==
    [file |-> filename, kind |-> error.kind, missing |-> error.missing,
     expected |-> error.expected, got |-> error.got]

Raised(filename, kind) == ErrorOf(filename, [NoError EXCEPT !.kind = kind])

\* One pass of the loop body of scan_workflows_directory (lines 92-141) over
\* a file that is not index.json: what it appends to items, errors and
\* skipped_files, and the text the file holds afterwards.
scan_workflow_file(filename, text) ==
    LET data == json_load(text)
        failed(kind) ==
            [items |-> <<>>, errors |-> <<Raised(filename, kind)>>,
             skipped |-> <<filename>>, text |-> text]
    IN
    IF data.raises = "JSONDecodeError" THEN failed("ParseError")
    ELSE IF data.raises # "none" THEN failed("UnexpectedError")
    ELSE IF ~data.isDict THEN failed("UnexpectedError")
    ELSE
      LET v == validate_workflow(data, filename) IN
      IF ~v.is_valid
      THEN [items |-> <<>>, errors |-> <<ErrorOf(filename, v.error)>>,
            skipped |-> <<filename>>, text |-> text]
      ELSE
        LET cleaned_workflow == clean_workflow_for_repo(data)
            item == workflow_item(data.meta, filename)
            written == json_dump(cleaned_workflow)
        IN
        IF written.raises = "none"
        THEN [items |-> <<item>>, errors |-> <<>>, skipped |-> <<>>,
              text |-> written.text]
        ELSE [items |-> <<item>>,
              errors |-> <<Raised(filename, "UnexpectedError")>>,
              skipped |-> <<filename>>, text |-> written.text]

(***************************************************************************)
(* Module archives                                                         *)
(*                                                                         *)
(* An archive is [isZip, entries]; an entry is [path, kind, manifest],     *)
(* kind "object" for a JSON object and "invalid" for anything else.        *)
(***************************************************************************)
required_fields ==
    <<"id", "name", "description", "author", "version", "category">>

\* validate_module(manifest, filename): (is_valid, error_message).
validate_module(manifest, filename) ==
    LET missing_fields ==
            SelectSeq(required_fields, LAMBDA field : field \notin DOMAIN manifest)
    IN
    IF missing_fields # <<>>
    THEN [is_valid |-> FALSE,
          error |-> [NoError EXCEPT !.kind = "MissingRequiredFields",
                                    !.missing = missing_fields]]
    ELSE
      LET expected_id == normalize_module_id(filename)
          manifest_id == manifest["id"]
      IN
      IF manifest_id # expected_id
      THEN [is_valid |-> FALSE,
            error |-> [NoError EXCEPT !.kind = "IdentifierMismatch",
                                      !.expected = expected_id,
                                      !.got = manifest_id]]
      ELSE [is_valid |-> TRUE, error |-> NoError]

\* A faulty variant: the loop does not break, so the last matching entry is used.
find_manifest_last(entries) ==
    LET hits == {i \in 1..Len(entries) : EndsWith(entries[i].path, ManifestName)} IN
    IF hits = {} THEN 0
    ELSE CHOOSE i \in hits : \A j \in hits : i >= j

\* The loop over zip_file.namelist() (lines 195-202): the index of the first
\* entry whose path ends with 'manifest.json', 0 when there is none.
find_manifest(entries) ==
    LET hits == {i \in 1..Len(entries) : EndsWith(entries[i].path, ManifestName)} IN
    IF hits = {} THEN 0
    ELSE CHOOSE i \in hits : \A j \in hits : i <= j

\* The index entry of a module (lines 222-238); the same fields are kept.
module_item(manifest, filename) ==
    [id |-> Get(manifest, "id", normalize_module_id(filename)),
     name |-> Get(manifest, "name", <<"u">>),
     homepage |-> Get(manifest, "homepage", <<>>),
     filename |-> filename]

\* One pass of the loop body of scan_modules_directory (lines 191-252).
scan_module_file(filename, archive) ==
    LET failed(kind) ==
            [items |-> <<>>, errors |-> <<Raised(filename, kind)>>,
             skipped |-> <<filename>>]
    IN
    IF ~archive.isZip THEN failed("CorruptArchive")
    ELSE
      LET manifest_file == find_manifest(archive.entries) IN
      IF manifest_file = 0 THEN failed("ManifestNotFound")
      ELSE IF archive.entries[manifest_file].kind # "object"
      THEN failed("ParseError")
      ELSE
        LET manifest == archive.entries[manifest_file].manifest
            v == validate_module(manifest, filename)
        IN
        IF ~v.is_valid
        THEN [items |-> <<>>, errors |-> <<ErrorOf(filename, v.error)>>,
              skipped |-> <<filename>>]
        ELSE [items |-> <<module_item(manifest, filename)>>, errors |-> <<>>,
              skipped |-> <<>>]

(***************************************************************************)
(* Index builder                                                           *)
(***************************************************************************)
\* list.sort(key=lambda x: x['id']): a stable sort, ascending by id.
RECURSIVE InsertById(_, _)
InsertById(sorted, item) ==
    IF sorted = <<>> THEN <<item>>
    ELSE IF StrLess(item.id, Head(sorted).id)
         THEN <<item>> \o sorted
         ELSE <<Head(sorted)>> \o InsertById(Tail(sorted), item)

\* A faulty variant: the entries are written in the order the scanner returned them.
sort_by_id_skipped(items) == items

RECURSIVE sort_by_id(_)
sort_by_id(items) ==
    IF items = <<>> THEN <<>>
    ELSE InsertById(sort_by_id(SubSeq(items, 1, Len(items) - 1)),
                    items[Len(items)])

NoIndex == [exists |-> FALSE, total_count |-> 0, entries |-> <<>>]

\* The document of lines 280-285 (version and last_updated left out).
index_document(items) ==
    [exists |-> TRUE, total_count |-> Len(items), entries |-> items]

(***************************************************************************)
(* The inputs: what the two directories hold when the program starts       *)
(*                                                                         *)
(* Metadata and manifest values are plain strings; a lone surrogate occurs *)
(* only in a top-level workflow field, which no index entry copies, so the *)
(* write of index.json fails only when its directory does not exist.       *)
(***************************************************************************)
A_json == <<"a">> \o DotJson
B_json == <<"b">> \o DotJson
A_json_json == <<"a">> \o DotJson \o DotJson
A_zip == <<"a">> \o DotZip
B_zip == <<"b">> \o DotZip
A_zip_zip == <<"a">> \o DotZip \o DotZip

WfNames == {A_json, B_json, A_json_json}
ModNames == {A_zip, B_zip, A_zip_zip}

\* A metadata block or manifest holding `keys`, with the given id and name.
Dict(keys, id, name) ==
    [k \in keys |-> CASE k = "id" -> id [] k = "name" -> name [] OTHER -> <<"x">>]

WfKeys == {"id", "name", "description", "author", "version", "vFlowLevel"}
ModKeys == {"id", "name", "description", "author", "version", "category"}

Object(fmt, hasMeta, meta, members) ==
    [kind |-> "object", fmt |-> fmt, hasMeta |-> hasMeta, meta |-> meta,
     members |-> members]

NotObject(kind) ==
    [kind |-> kind, fmt |-> "compact", hasMeta |-> FALSE, meta |-> NoDict,
     members |-> <<>>]

WfValidA ==
    Object("compact", TRUE, Dict(WfKeys, <<"a">>, <<"x">>),
           << <<"isEnabled", "true">>, <<"note", "txt">> >>)
WfCleanB ==
    Object("indent2", TRUE, Dict(WfKeys \cup {"homepage"}, <<"b">>, <<"y">>),
           << <<"isEnabled", "false">>, <<"isFavorite", "false">>,
              <<"wasEnabledBeforePermissionsLost", "false">> >>)
WfRepeatB ==
    Object("compact", TRUE, Dict(WfKeys, <<"b">>, <<"x">>),
           << <<"note", "txt">>, <<"isFavorite", "true">>, <<"note", "txt2">> >>)
WfSurrogateA ==
    Object("compact", TRUE, Dict(WfKeys, <<"a">>, <<"x">>),
           << <<"isFavorite", "true">>, <<"note", "surr">>,
              <<"isEnabled", "true">> >>)
WfIdAJson ==
    Object("compact", TRUE, Dict(WfKeys, A_json, <<"x">>),
           << <<"isEnabled", "true">> >>)
WfNoMeta ==
    Object("compact", FALSE, NoDict, << <<"isEnabled", "true">> >>)
WfMissingTwo ==
    Object("compact", TRUE, Dict(WfKeys \ {"name", "vFlowLevel"}, <<"a">>, <<"x">>),
           << <<"isEnabled", "true">> >>)
WfMissingId ==
    Object("compact", TRUE, Dict(WfKeys \ {"id"}, <<"a">>, <<"x">>), <<>>)

WfTexts ==
    {WfValidA, WfCleanB, WfRepeatB, WfSurrogateA, WfIdAJson, WfNoMeta,
     WfMissingTwo, WfMissingId,
     NotObject("invalid"), NotObject("scalar"), NotObject("undecodable")}

Entry(path, kind, manifest) == [path |-> path, kind |-> kind, manifest |-> manifest]
Readme == Entry(<<"r">>, "invalid", NoDict)
Zip(entries) == [isZip |-> TRUE, entries |-> entries]

ZipValidA == Zip(<<Entry(ManifestName, "object", Dict(ModKeys, <<"a">>, <<"x">>))>>)
ZipValidB ==
    Zip(<<Readme,
          Entry(ManifestName, "object",
                Dict(ModKeys \cup {"homepage"}, <<"b">>, <<"y">>))>>)
\* Two manifests: the first, in a subdirectory, names a; the second names b.
ZipTwoManifests ==
    Zip(<<Readme,
          Entry(<<"s", "/">> \o ManifestName, "object",
                Dict(ModKeys, <<"a">>, <<"x">>)),
          Entry(ManifestName, "object", Dict(ModKeys, <<"b">>, <<"y">>))>>)
ZipIdAZip == Zip(<<Entry(ManifestName, "object", Dict(ModKeys, A_zip, <<"x">>))>>)
\* No path ends with manifest.json: "manifest" alone does not.
ZipNoManifest ==
    Zip(<<Readme,
          Entry(<<"m", "a", "n", "i", "f", "e", "s", "t">>, "invalid", NoDict)>>)
ZipBadManifest == Zip(<<Entry(ManifestName, "invalid", NoDict)>>)
ZipMissingTwo ==
    Zip(<<Entry(ManifestName, "object",
                Dict(ModKeys \ {"author", "category"}, <<"a">>, <<"x">>))>>)
NotAZip == [isZip |-> FALSE, entries |-> <<>>]

Archives ==
    {ZipValidA, ZipValidB, ZipTwoManifests, ZipIdAZip, ZipNoManifest,
     ZipBadManifest, ZipMissingTwo, NotAZip}

\* The directories of at most n files named from `names`, holding `texts`.
Dirs(names, texts, n) ==
    UNION {[S -> texts] : S \in {T \in SUBSET names : Cardinality(T) <= n}}

(***************************************************************************)
(* State                                                                   *)
(***************************************************************************)
VARIABLES
    wfDirExists,      \* the workflows directory exists
    wfFiles,          \* its *.json files other than index.json: name -> text
    wfIndex,          \* its index.json
    modDirExists,     \* the modules directory exists
    modFiles,         \* its *.zip files: name -> archive
    modIndex,         \* its index.json
    pc,               \* where main() stands
    pending,          \* files the running scan's glob has yet to yield
    items,            \* locals of the running scan and of generate_index
    errors,
    skipped_files,
    success,          \* main's success
    exitStatus,       \* the process exit status, -1 while it runs
    wfBefore,         \* history: wfFiles when the process started
    scanOrder,        \* history: the files the running scan has been through
    returned,         \* history: items as the last scanner returned them
    wfReturn,         \* history: what generate_index returned for workflows
    modReturn,        \* history: and for modules
    rewritten,        \* history: workflows rewritten whole by this process
    rewrittenBefore   \* history: and by earlier processes

vars ==
    <<wfDirExists, wfFiles, wfIndex, modDirExists, modFiles, modIndex, pc,
      pending, items, errors, skipped_files, success, exitStatus, wfBefore,
      scanOrder, returned, wfReturn, modReturn, rewritten, rewrittenBefore>>

disk == <<wfDirExists, wfFiles, modDirExists, modFiles>>
locals == <<items, errors, skipped_files>>

\* One directory is drawn in full, the other from a few plain cases: the
\* two scans share nothing but main's success flag.
Init ==
    /\ \E focus \in {"workflows", "modules"} :
        /\ wfFiles \in IF focus = "workflows"
                       THEN Dirs(WfNames, WfTexts, MaxFiles)
                       ELSE Dirs({A_json}, {WfValidA, NotObject("invalid")}, 1)
        /\ modFiles \in IF focus = "modules"
                        THEN Dirs(ModNames, Archives, MaxFiles)
                        ELSE Dirs({A_zip}, {ZipValidA, NotAZip}, 1)
    /\ wfDirExists \in BOOLEAN
    /\ modDirExists \in BOOLEAN
    /\ ~wfDirExists => wfFiles = <<>>
    /\ ~modDirExists => modFiles = <<>>
    /\ wfIndex = NoIndex
    /\ modIndex = NoIndex
    /\ pc = "main"
    /\ pending = {}
    /\ items = <<>>
    /\ errors = <<>>
    /\ skipped_files = <<>>
    /\ success = TRUE
    /\ exitStatus = -1
    /\ wfBefore = wfFiles
    /\ scanOrder = <<>>
    /\ returned = <<>>
    /\ wfReturn = "none"
    /\ modReturn = "none"
    /\ rewritten = {}
    /\ rewrittenBefore = {}

(***************************************************************************)
(* Actions                                                                 *)
(***************************************************************************)
\* A faulty variant: an error in one file ends the loop.
next_iteration_aborting(files, filename, result) ==
    IF result.errors # <<>> THEN {} ELSE files \ {filename}

\* What is left of the glob once the loop body has run for `filename`:
\* every except clause falls through to the next iteration.
next_iteration(files, filename, result) == files \ {filename}

\* main() and generate_index up to the call of scan_workflows_directory,
\* and the scanner up to its loop (lines 305-312, 261-265, 76-87).
StartWorkflows ==
    /\ pc = "main"
    /\ pc' = "wf_scan"
    /\ success' = TRUE
    /\ items' = <<>>
    /\ errors' = <<>>
    /\ skipped_files' = <<>>
    /\ scanOrder' = <<>>
    /\ pending' = IF wfDirExists
                  THEN DOMAIN wfFiles \cup (IF wfIndex.exists THEN {IndexName} ELSE {})
                  ELSE {}
    /\ UNCHANGED <<disk, wfIndex, modIndex, exitStatus, wfBefore, returned,
                   wfReturn, modReturn, rewritten, rewrittenBefore>>

\* The glob yields index.json: continue (lines 89-90).
SkipIndexFile ==
    /\ pc = "wf_scan"
    /\ IndexName \in pending
    /\ pending' = pending \ {IndexName}
    /\ UNCHANGED <<disk, wfIndex, modIndex, pc, locals, success, exitStatus,
                   wfBefore, scanOrder, returned, wfReturn, modReturn,
                   rewritten, rewrittenBefore>>

\* The glob yields a workflow file: one pass of the loop body (lines 87-141).
ScanWorkflowFile(filename) ==
    /\ pc = "wf_scan"
    /\ filename \in pending
    /\ filename # IndexName
    /\ LET r == scan_workflow_file(filename, wfFiles[filename]) IN
        /\ items' = items \o r.items
        /\ errors' = errors \o r.errors
        /\ skipped_files' = skipped_files \o r.skipped
        /\ wfFiles' = [wfFiles EXCEPT ![filename] = r.text]
        /\ rewritten' = IF r.errors = <<>> THEN rewritten \cup {filename}
                        ELSE rewritten
        /\ pending' = next_iteration(pending, filename, r)
    /\ scanOrder' = Append(scanOrder, filename)
    /\ UNCHANGED <<wfDirExists, modDirExists, modFiles, wfIndex, modIndex, pc,
                   success, exitStatus, wfBefore, returned, wfReturn,
                   modReturn, rewrittenBefore>>

\* The workflows scanner returns; generate_index sorts, writes index.json
\* and returns to main (lines 143, 267-297, 312-313).  open() of
\* <directory>/index.json raises FileNotFoundError when the directory does
\* not exist; nothing catches it and the interpreter exits with status 1.
BuildWorkflowsIndex ==
    /\ pc = "wf_scan"
    /\ pending = {}
    /\ returned' = items
    /\ items' = sort_by_id(items)
    /\ IF wfDirExists
       THEN /\ wfIndex' = index_document(items')
            /\ wfReturn' = IF Len(errors) = 0 THEN "True" ELSE "False"
            /\ success' = (success /\ Len(errors) = 0)
            /\ pc' = "mod_start"
            /\ exitStatus' = exitStatus
       ELSE /\ wfIndex' = wfIndex
            /\ wfReturn' = "raised"
            /\ success' = success
            /\ pc' = "crashed"
            /\ exitStatus' = 1
    /\ UNCHANGED <<disk, modIndex, pending, errors, skipped_files, wfBefore,
                   scanOrder, modReturn, rewritten, rewrittenBefore>>

\* main() and generate_index up to the call of scan_modules_directory, and
\* the scanner up to its loop (lines 315-322, 261-265, 175-186).  No *.zip
\* file is named index.json, so the test of lines 188-189 never holds.
StartModules ==
    /\ pc = "mod_start"
    /\ pc' = "mod_scan"
    /\ items' = <<>>
    /\ errors' = <<>>
    /\ skipped_files' = <<>>
    /\ scanOrder' = <<>>
    /\ pending' = IF modDirExists THEN DOMAIN modFiles ELSE {}
    /\ UNCHANGED <<disk, wfIndex, modIndex, success, exitStatus, wfBefore,
                   returned, wfReturn, modReturn, rewritten, rewrittenBefore>>

\* The glob yields an archive: one pass of the loop body (lines 186-252).
ScanModuleFile(filename) ==
    /\ pc = "mod_scan"
    /\ filename \in pending
    /\ LET r == scan_module_file(filename, modFiles[filename]) IN
        /\ items' = items \o r.items
        /\ errors' = errors \o r.errors
        /\ skipped_files' = skipped_files \o r.skipped
        /\ pending' = next_iteration(pending, filename, r)
    /\ scanOrder' = Append(scanOrder, filename)
    /\ UNCHANGED <<disk, wfIndex, modIndex, pc, success, exitStatus, wfBefore,
                   returned, wfReturn, modReturn, rewritten, rewrittenBefore>>

\* The modules scanner returns; generate_index sorts, writes index.json and
\* returns to main (lines 254, 267-297, 322-323).
BuildModulesIndex ==
    /\ pc = "mod_scan"
    /\ pending = {}
    /\ returned' = items
    /\ items' = sort_by_id(items)
    /\ IF modDirExists
       THEN /\ modIndex' = index_document(items')
            /\ modReturn' = IF Len(errors) = 0 THEN "True" ELSE "False"
            /\ success' = (success /\ Len(errors) = 0)
            /\ pc' = "exit"
            /\ exitStatus' = exitStatus
       ELSE /\ modIndex' = modIndex
            /\ modReturn' = "raised"
            /\ success' = success
            /\ pc' = "crashed"
            /\ exitStatus' = 1
    /\ UNCHANGED <<disk, wfIndex, pending, errors, skipped_files, wfBefore,
                   scanOrder, wfReturn, rewritten, rewrittenBefore>>

\* sys.exit(0 if success else 1) (line 326).
Exit ==
    /\ pc = "exit"
    /\ pc' = "done"
    /\ exitStatus' = IF success THEN 0 ELSE 1
    /\ UNCHANGED <<disk, wfIndex, modIndex, pending, locals, success, wfBefore,
                   scanOrder, returned, wfReturn, modReturn, rewritten,
                   rewrittenBefore>>

\* The program is run again on the directories as the last run left them.
Rerun ==
    /\ pc \in {"done", "crashed"}
    /\ pc' = "main"
    /\ pending' = {}
    /\ items' = <<>>
    /\ errors' = <<>>
    /\ skipped_files' = <<>>
    /\ success' = TRUE
    /\ exitStatus' = -1
    /\ wfBefore' = wfFiles
    /\ scanOrder' = <<>>
    /\ returned' = <<>>
    /\ wfReturn' = "none"
    /\ modReturn' = "none"
    /\ rewrittenBefore' = rewrittenBefore \cup rewritten
    /\ rewritten' = {}
    /\ UNCHANGED <<disk, wfIndex, modIndex>>

Next ==
    \/ StartWorkflows
    \/ SkipIndexFile
    \/ \E filename \in WfNames : ScanWorkflowFile(filename)
    \/ BuildWorkflowsIndex
    \/ StartModules
    \/ \E filename \in ModNames : ScanModuleFile(filename)
    \/ BuildModulesIndex
    \/ Exit
    \/ Rerun

Spec == Init /\ [][Next]_vars

(***************************************************************************)
(* Properties                                                              *)
(***************************************************************************)
\* items, errors and skipped_files are those of the workflows scan.
WorkflowsScanned == pc = "mod_start"
\* ... and those of the modules scan.
ModulesScanned == pc \in {"exit", "done"}
Terminated == pc \in {"done", "crashed"}

ErrorsFor(f) == {i \in 1..Len(errors) : errors[i].file = f}
SkipsFor(f) == {i \in 1..Len(skipped_files) : skipped_files[i] = f}
ItemsFor(f) == {i \in 1..Len(items) : items[i].filename = f}
EntriesFor(index, f) ==
    {i \in 1..Len(index.entries) : index.entries[i].filename = f}
Scanned == {scanOrder[i] : i \in 1..Len(scanOrder)}

\* The file name with one trailing suffix removed.
StripSuffix(name, suffix) ==
    IF EndsWith(name, suffix) THEN SubSeq(name, 1, Len(name) - Len(suffix))
    ELSE name

ValueOf(fields, k) == fields[CHOOSE i \in 1..Len(fields) : fields[i][1] = k][2]
KeysOf(fields) == {fields[i][1] : i \in 1..Len(fields)}
FlagSet == {Flags[i] : i \in 1..Len(Flags)}

\* C1: a workflow file for which the scanner recorded an error and a skip
\* has no entry among the returned items or in the index, and its text on
\* disk is what it was before the scan.
C1_SkippedFileUntouched ==
    pc \in {"wf_scan", "mod_start"} =>
        \A f \in DOMAIN wfFiles :
            (ErrorsFor(f) # {} /\ SkipsFor(f) # {}) =>
                /\ ItemsFor(f) = {}
                /\ WorkflowsScanned => EntriesFor(wfIndex, f) = {}
                /\ wfFiles[f] = wfBefore[f]

\* C2: a run whose workflows (modules) directory does not exist reports
\* success for it, still runs the other directory, and exits with status 0
\* when the other run reports no error.
C2_MissingDirectoryIsSuccess ==
    Terminated =>
        /\ ~wfDirExists =>
            /\ wfReturn = "True"
            /\ modReturn # "none"
            /\ modReturn = "True" => exitStatus = 0
        /\ ~modDirExists =>
            /\ modReturn = "True"
            /\ wfReturn = "True" => exitStatus = 0

\* The file passes json.load and validate_workflow.
ValidWorkflow(f, text) ==
    LET data == json_load(text) IN
    /\ data.raises = "none"
    /\ data.isDict
    /\ validate_workflow(data, f).is_valid

\* C3: after the scan every valid workflow file holds the three flags as
\* false and every other top-level field, _meta included, as before; a file
\* an earlier run rewrote is left as that run wrote it.
C3_RewriteForcesFlagsOnly ==
    pc \in {"wf_scan", "mod_start"} =>
        \A f \in Scanned :
            /\ ValidWorkflow(f, wfBefore[f]) =>
                LET before == json_load(wfBefore[f])
                    after == json_load(wfFiles[f])
                IN
                /\ after.raises = "none"
                /\ after.isDict
                /\ after.hasMeta = before.hasMeta
                /\ after.meta = before.meta
                /\ KeysOf(after.fields) = KeysOf(before.fields) \cup FlagSet
                /\ \A k \in KeysOf(after.fields) :
                      ValueOf(after.fields, k) =
                          IF k \in FlagSet THEN "false"
                          ELSE ValueOf(before.fields, k)
            /\ f \in rewrittenBefore => wfFiles[f] = wfBefore[f]

\* The archive's manifest as the scanner reads it ("none": no manifest that
\* parses to an object).
ManifestOf(archive) ==
    LET i == find_manifest(archive.entries) IN
    IF archive.isZip /\ i # 0 /\ archive.entries[i].kind = "object"
    THEN [found |-> TRUE, manifest |-> archive.entries[i].manifest]
    ELSE [found |-> FALSE, manifest |-> NoDict]

MismatchReported(f) ==
    \E i \in ErrorsFor(f) : errors[i].kind = "IdentifierMismatch"

\* C4: a file whose metadata holds every required field and whose id is not
\* the file name with one trailing extension removed gets an identifier
\* mismatch error, no index entry and no rewrite; a file whose id is that
\* name is never reported as a mismatch.
C4_IdentifierMismatch ==
    /\ pc \in {"wf_scan", "mod_start"} =>
        \A f \in Scanned :
            LET data == json_load(wfBefore[f]) IN
            (data.raises = "none" /\ data.hasMeta /\ WfKeys \subseteq DOMAIN data.meta) =>
                IF data.meta["id"] # StripSuffix(f, DotJson)
                THEN /\ MismatchReported(f)
                     /\ ItemsFor(f) = {}
                     /\ wfFiles[f] = wfBefore[f]
                ELSE ~MismatchReported(f)
    /\ pc \in {"mod_scan", "exit", "done"} =>
        \A f \in Scanned :
            LET m == ManifestOf(modFiles[f]) IN
            (m.found /\ ModKeys \subseteq DOMAIN m.manifest) =>
                IF m.manifest["id"] # StripSuffix(f, DotZip)
                THEN MismatchReported(f) /\ ItemsFor(f) = {}
                ELSE ~MismatchReported(f)

\* What the validators must report for a metadata block or manifest `d`
\* (present when hasDict) whose required keys are `keys`.
ReportsInOrder(f, hasDict, d, keys, metaNeeded) ==
    LET absent == {k \in keys : k \notin DOMAIN d}
        kinds == {errors[i].kind : i \in ErrorsFor(f)}
    IN
    IF metaNeeded /\ ~hasDict
    THEN kinds = {"MissingMetadata"}
    ELSE IF absent # {}
    THEN /\ kinds = {"MissingRequiredFields"}
         /\ \A i \in ErrorsFor(f) :
               /\ {errors[i].missing[j] : j \in 1..Len(errors[i].missing)} = absent
               /\ Len(errors[i].missing) = Cardinality(absent)
    ELSE /\ "MissingMetadata" \notin kinds
         /\ "MissingRequiredFields" \notin kinds

\* C5: validation checks in a fixed order: no _meta gives the missing
\* metadata error; otherwise any absent required key gives the missing
\* fields error naming exactly the absent keys; the identifier is compared
\* only when no required key is absent.
C5_ValidationOrder ==
    /\ pc \in {"wf_scan", "mod_start"} =>
        \A f \in Scanned :
            LET data == json_load(wfBefore[f]) IN
            (data.raises = "none" /\ data.isDict) =>
                /\ ReportsInOrder(f, data.hasMeta, data.meta, WfKeys, TRUE)
                /\ MismatchReported(f) =>
                      data.hasMeta /\ WfKeys \subseteq DOMAIN data.meta
    /\ pc \in {"mod_scan", "exit", "done"} =>
        \A f \in Scanned :
            LET m == ManifestOf(modFiles[f]) IN
            m.found =>
                /\ ReportsInOrder(f, TRUE, m.manifest, ModKeys, FALSE)
                /\ MismatchReported(f) => ModKeys \subseteq DOMAIN m.manifest

C5_Witness ==
    /\ pc = "wf_scan"
    /\ \E i \in 1..Len(errors) :
          /\ errors[i].kind = "MissingRequiredFields"
          /\ errors[i].missing = <<"name", "vFlowLevel">>
    /\ \E i \in 1..Len(errors) : errors[i].kind = "MissingMetadata"

\* C6: the exit status is 0 exactly when both runs of generate_index
\* reported no error and 1 otherwise, and the modules run is always made.
C6_ExitStatus ==
    Terminated =>
        /\ modReturn # "none"
        /\ exitStatus \in {0, 1}
        /\ exitStatus = 0 <=> (wfReturn = "True" /\ modReturn = "True")

\* What a finished scan of directory `dir` must have recorded, `failing`
\* being its files whose processing raises or fails validation.
ScanComplete(dir, failing, index) ==
    /\ Len(scanOrder) = Cardinality(DOMAIN dir)
    /\ \A f \in DOMAIN dir :
          /\ f \in Scanned
          /\ Cardinality(ErrorsFor(f)) = (IF f \in failing THEN 1 ELSE 0)
          /\ Cardinality(SkipsFor(f)) = (IF f \in failing THEN 1 ELSE 0)
          /\ f \notin failing => Cardinality(EntriesFor(index, f)) = 1
    /\ index.exists
    /\ index.total_count = Len(index.entries)

WorkflowFails(f) == scan_workflow_file(f, wfBefore[f]).errors # <<>>
ModuleFails(f) == scan_module_file(f, modFiles[f]).errors # <<>>

IsSortedById(entries) ==
    \A i, j \in 1..Len(entries) : i < j => ~StrLess(entries[j].id, entries[i].id)

IsPermutation(s, t) ==
    /\ Len(s) = Len(t)
    /\ \A x \in {s[i] : i \in 1..Len(s)} \cup {t[i] : i \in 1..Len(t)} :
          Cardinality({i \in 1..Len(s) : s[i] = x})
              = Cardinality({i \in 1..Len(t) : t[i] = x})

\* C8: the entries generate_index writes are in ascending order of id and
\* are a permutation of the entries the scanner returned, whatever order it
\* returned them in.
C8_IndexSorted ==
    /\ WorkflowsScanned =>
          IsSortedById(wfIndex.entries) /\ IsPermutation(returned, wfIndex.entries)
    /\ ModulesScanned =>
          IsSortedById(modIndex.entries) /\ IsPermutation(returned, modIndex.entries)

C8_Witness ==
    /\ WorkflowsScanned
    /\ Len(returned) = 2
    /\ StrLess(returned[2].id, returned[1].id)
    /\ wfIndex.entries = <<returned[2], returned[1]>>

\* The validator reached the identifier check for file f (lines 46, 161).
WorkflowIdChecked(f) ==
    LET data == json_load(wfBefore[f]) IN
    data.raises = "none" /\ data.hasMeta /\ WfKeys \subseteq DOMAIN data.meta

ModuleIdChecked(f) ==
    LET m == ManifestOf(modFiles[f]) IN
    m.found /\ ModKeys \subseteq DOMAIN m.manifest

\* The expected id the validator derived from the name of file f, as its
\* mismatch message quotes it, is the name without the trailing suffix.
QuotedIdStripped(f, suffix) ==
    \A i \in ErrorsFor(f) :
        errors[i].kind = "IdentifierMismatch" =>
            errors[i].expected = StripSuffix(f, suffix)

\* C9: the normalizers return a name that ends with the suffix without that
\* trailing suffix, every other character kept, and any other name as it is.
C9_NormalizerStripsSuffix ==
    /\ pc \in {"wf_scan", "mod_start"} =>
        \A f \in {g \in Scanned : WorkflowIdChecked(g)} :
            /\ normalize_workflow_id(f) = StripSuffix(f, DotJson)
            /\ normalize_module_id(f) = f
            /\ QuotedIdStripped(f, DotJson)
    /\ pc \in {"mod_scan", "exit", "done"} =>
        \A f \in {g \in Scanned : ModuleIdChecked(g)} :
            /\ normalize_module_id(f) = StripSuffix(f, DotZip)
            /\ normalize_workflow_id(f) = f
            /\ QuotedIdStripped(f, DotZip)

\* C10: the module scanner reads the first archive entry whose path ends
\* with manifest.json; an archive with no such entry gets the manifest not
\* found error, is skipped and is not indexed, so a modules directory whose
\* only archive has no manifest gives an empty index and exit status 1.
C10_ManifestLookup ==
    /\ pc \in {"mod_scan", "exit", "done"} =>
        \A f \in Scanned :
            LET entries == modFiles[f].entries
                hits == {i \in 1..Len(entries) : EndsWith(entries[i].path, ManifestName)}
            IN
            modFiles[f].isZip =>
                IF hits = {}
                THEN /\ {errors[i].kind : i \in ErrorsFor(f)} = {"ManifestNotFound"}
                     /\ SkipsFor(f) # {}
                     /\ ItemsFor(f) = {}
                     /\ ModulesScanned => EntriesFor(modIndex, f) = {}
                ELSE LET first == entries[CHOOSE i \in hits : \A j \in hits : i <= j]
                         usable == /\ first.kind = "object"
                                   /\ validate_module(first.manifest, f).is_valid
                     IN
                     /\ "ManifestNotFound" \notin {errors[i].kind : i \in ErrorsFor(f)}
                     /\ usable <=> ItemsFor(f) # {}
                     /\ \A i \in ItemsFor(f) :
                           /\ items[i].id = first.manifest["id"]
                           /\ items[i].name = first.manifest["name"]
    /\ (/\ modDirExists
        /\ Cardinality(DOMAIN modFiles) = 1
        /\ \A f \in DOMAIN modFiles :
              /\ modFiles[f].isZip
              /\ \A i \in 1..Len(modFiles[f].entries) :
                    ~EndsWith(modFiles[f].entries[i].path, ManifestName)) =>
          /\ ModulesScanned => modIndex.entries = <<>> /\ modIndex.total_count = 0
          /\ Terminated => exitStatus = 1

C10_Witness ==
    /\ pc = "done"
    /\ DOMAIN modFiles = {B_zip}
    /\ modFiles[B_zip] = ZipNoManifest
    /\ errors = <<Raised(B_zip, "ManifestNotFound")>>
    /\ modIndex = index_document(<<>>)
    /\ exitStatus = 1

=============================================================================
